---- MODULE Spec2Model ----
(***************************************************************************)
(* Model of the smartgpt plugin protocol as implemented by the ChatGPT     *)
(* memory plugin (src/plugins/chatgpt/mod.rs) and the Google plugin        *)
(* (src/plugins/google/mod.rs): the State Objects, their dispatch tables   *)
(* (PluginData::apply), state construction (PluginCycle::create_data) and  *)
(* the commands ask-chatgpt, reset-chatgpt and google.                     *)
(***************************************************************************)
EXTENDS Integers, Sequences, FiniteSets, TLC

(***************************************************************************)
(* Bounds of the model.                                                    *)
(***************************************************************************)
\* longest conversation memory explored
MaxMem == 4
\* most successful pushes counted per conversation context
MaxPushes == 4
\* most clears counted per conversation context
MaxClears == 2
\* most ask-chatgpt commands answered between two resets of a conversation
MaxTurns == 3

(***************************************************************************)
(* serde_json::Value: the untyped payload of the protocol.                 *)
(***************************************************************************)
JNull == [kind |-> "Null"]
JBool(b) == [kind |-> "Bool", b |-> b]
JNum(n) == [kind |-> "Number", n |-> n]
JStr(s) == [kind |-> "String", s |-> s]
JArr(items) == [kind |-> "Array", items |-> items]
JObj(map) == [kind |-> "Object", map |-> map]

\* Result<T, Box<dyn Error>>
Ok(v) == [tag |-> "Ok", val |-> v]
Err(e) == [tag |-> "Err", err |-> e]
\* a call suspended at the .await of a request to an external collaborator
Await(request) == [tag |-> "Await", request |-> request]
\* a panic unwinding out of the call
Panic(msg) == [tag |-> "Panic", msg |-> msg]
IsOk(r) == r.tag = "Ok"
IsErr(r) == r.tag = "Err"

\* Option<T>::None
None == [type |-> "None"]

(***************************************************************************)
(* Error values.                                                           *)
(***************************************************************************)
PluginDataNoInvoke(plugin, op) == [type |-> "PluginDataNoInvoke", plugin |-> plugin, op |-> op]
CommandNoArgError(cmd, arg) == [type |-> "CommandNoArgError", cmd |-> cmd, arg |-> arg]
GoogleNoQueryError == [type |-> "GoogleNoQueryError", message |-> "'google' command did not receive a query."]
SerdeError == [type |-> "serde_json::Error"]
OpenAIError == [type |-> "OpenAIError"]
\* the failure of PluginStore::get_data when no State Object is stored under the name
NoPluginDataError(plugin) == [type |-> "NoPluginDataError", plugin |-> plugin]
\* the failure of the Browse plugin's request
BrowseError == [type |-> "BrowseError"]

(***************************************************************************)
(* The ChatGPT memory plugin: types and conversions.                       *)
(***************************************************************************)
CHAT_GPT_PROMPT == "You are ChatGPT, a large language model trained by OpenAI"

\* enum ChatGPTRole, and async_openai's Role
ChatGPTRole == {"ChatGPTRole::Assistant", "ChatGPTRole::System", "ChatGPTRole::User"}
Role == {"Role::Assistant", "Role::System", "Role::User"}

\* impl From<ChatGPTRole> for Role
Role_from_ChatGPTRole(value) ==
    CASE value = "ChatGPTRole::Assistant" -> "Role::Assistant"
      [] value = "ChatGPTRole::System" -> "Role::System"
      [] value = "ChatGPTRole::User" -> "Role::User"

\* impl From<Role> for ChatGPTRole
ChatGPTRole_from_Role(value) ==
    CASE value = "Role::Assistant" -> "ChatGPTRole::Assistant"
      [] value = "Role::System" -> "ChatGPTRole::System"
      [] value = "Role::User" -> "ChatGPTRole::User"

\* #[derive(Serialize)] on ChatGPTRole: a unit variant is its name as a string
ChatGPTRole_to_value(role) ==
    CASE role = "ChatGPTRole::Assistant" -> JStr("Assistant")
      [] role = "ChatGPTRole::System" -> JStr("System")
      [] role = "ChatGPTRole::User" -> JStr("User")

\* #[derive(Deserialize)] on ChatGPTRole
ChatGPTRole_from_value(value) ==
    IF value = JStr("Assistant") THEN Ok("ChatGPTRole::Assistant")
    ELSE IF value = JStr("System") THEN Ok("ChatGPTRole::System")
    ELSE IF value = JStr("User") THEN Ok("ChatGPTRole::User")
    ELSE Err(SerdeError)

\* struct ChatGPTMessage { role, content }
ChatGPTMessage(role, content) == [role |-> role, content |-> content]

\* #[derive(Serialize)] on ChatGPTMessage
ChatGPTMessage_to_value(msg) ==
    JObj([role |-> ChatGPTRole_to_value(msg.role), content |-> JStr(msg.content)])

\* #[derive(Deserialize)] on ChatGPTMessage: an object with a role that
\* decodes and a string content
ChatGPTMessage_from_value(value) ==
    IF value.kind # "Object" THEN Err(SerdeError)
    ELSE IF ~ ({"role", "content"} \subseteq DOMAIN value.map) THEN Err(SerdeError)
    ELSE IF ~ IsOk(ChatGPTRole_from_value(value.map["role"])) THEN Err(SerdeError)
    ELSE IF value.map["content"].kind # "String" THEN Err(SerdeError)
    ELSE Ok(ChatGPTMessage(ChatGPTRole_from_value(value.map["role"]).val,
                           value.map["content"].s))

\* async_openai's ChatCompletionRequestMessage { role, content, name }
ChatCompletionRequestMessage(role, content) ==
    [role |-> role, content |-> content, name |-> None]

\* impl From<ChatCompletionRequestMessage> for ChatGPTMessage
ChatGPTMessage_from_request(value) ==
    ChatGPTMessage(ChatGPTRole_from_Role(value.role), value.content)

\* seq.iter().map(f).collect()
MapSeq(F(_), seq) == [i \in 1..Len(seq) |-> F(seq[i])]

\* struct ChatGPTData { client, memory }
ChatGPTData(api_key, memory) ==
    [type |-> "ChatGPTData", client |-> [api_key |-> api_key], memory |-> memory]

\* CreateChatCompletionRequest built by "respond"
CreateChatCompletionRequest(messages) ==
    [model |-> "gpt-3.5-turbo", messages |-> messages]

\* "len" returning the index of the newest message, counted from 0
ChatGPTData_len_LastIndex(self) ==
    [self |-> self, ret |-> Ok(JNum(IF self.memory = <<>> THEN 0 ELSE Len(self.memory) - 1))]

\* "len" arm of ChatGPTData::apply
ChatGPTData_len(self) ==
    [self |-> self, ret |-> Ok(JNum(Len(self.memory)))]

\* "push" that stores a default message when the payload does not decode
ChatGPTData_push_Default(self, value) ==
    LET decoded == ChatGPTMessage_from_value(value)
        msg == IF IsOk(decoded) THEN decoded.val ELSE ChatGPTMessage("ChatGPTRole::User", "") IN
    [self |-> [self EXCEPT !.memory = Append(@,
                 ChatCompletionRequestMessage(Role_from_ChatGPTRole(msg.role), msg.content))],
     ret |-> Ok(JBool(TRUE))]

\* "push" arm of ChatGPTData::apply
ChatGPTData_push(self, value) ==
    LET decoded == ChatGPTMessage_from_value(value) IN
    IF ~ IsOk(decoded) THEN [self |-> self, ret |-> decoded]
    ELSE [self |-> [self EXCEPT !.memory = Append(@,
                      ChatCompletionRequestMessage(Role_from_ChatGPTRole(decoded.val.role),
                                                   decoded.val.content))],
          ret |-> Ok(JBool(TRUE))]

\* "clear" that reports success and keeps the messages
ChatGPTData_clear_Kept(self) ==
    [self |-> self, ret |-> Ok(JBool(TRUE))]

\* "clear" arm of ChatGPTData::apply
ChatGPTData_clear(self) ==
    [self |-> [self EXCEPT !.memory = <<>>], ret |-> Ok(JBool(TRUE))]

\* "respond" that moves the messages out of the memory into the request
ChatGPTData_respond_Drained(self) ==
    LET messages == MapSeq(LAMBDA el : el, self.memory) IN
    [self |-> [self EXCEPT !.memory = <<>>],
     ret |-> Await(CreateChatCompletionRequest(messages))]

\* "respond" arm of ChatGPTData::apply, up to the .await of the provider call
ChatGPTData_respond(self) ==
    LET messages == MapSeq(LAMBDA el : el, self.memory) IN
    [self |-> self, ret |-> Await(CreateChatCompletionRequest(messages))]

\* "respond" arm of ChatGPTData::apply, from the completion of the provider
\* call: `?` on the failure, choices[0] on the response
ChatGPTData_respond_resume(response) ==
    IF ~ IsOk(response) THEN response
    ELSE IF Len(response.val.choices) = 0 THEN Panic("index out of bounds")
    ELSE Ok(JStr(response.val.choices[1].message.content))

\* "get" returning the newest message first
ChatGPTData_get_Reversed(self) ==
    LET n == Len(self.memory)
        gpt_messages == [i \in 1..n |-> ChatGPTMessage_from_request(self.memory[n + 1 - i])] IN
    [self |-> self, ret |-> Ok(JArr(MapSeq(ChatGPTMessage_to_value, gpt_messages)))]

\* "get" arm of ChatGPTData::apply
ChatGPTData_get(self) ==
    LET gpt_messages == MapSeq(ChatGPTMessage_from_request, self.memory) IN
    [self |-> self, ret |-> Ok(JArr(MapSeq(ChatGPTMessage_to_value, gpt_messages)))]

\* the `_` arm, ignoring the call instead of failing
ChatGPTData_unknown_Ignored(self, name) ==
    [self |-> self, ret |-> Ok(JNull)]

\* the `_` arm of ChatGPTData::apply
ChatGPTData_unknown(self, name) ==
    [self |-> self, ret |-> Err(PluginDataNoInvoke("ChatGPT", name))]

\* impl PluginData for ChatGPTData: the dispatch table
ChatGPTData_apply(self, name, value) ==
    CASE name = "len" -> ChatGPTData_len(self)
      [] name = "push" -> ChatGPTData_push(self, value)
      [] name = "clear" -> ChatGPTData_clear(self)
      [] name = "respond" -> ChatGPTData_respond(self)
      [] name = "get" -> ChatGPTData_get(self)
      [] OTHER -> ChatGPTData_unknown(self, name)

(***************************************************************************)
(* The Google plugin: State Object and dispatch table.                     *)
(***************************************************************************)
\* struct GoogleData { cse_id, api_key }
GoogleData(cse_id, api_key) ==
    [type |-> "GoogleData", cse_id |-> cse_id, api_key |-> api_key]

\* "get api key" arm of GoogleData::apply
GoogleData_get_api_key(self) ==
    [self |-> self, ret |-> Ok(JStr(self.api_key))]

\* "get cse id" arm of GoogleData::apply
GoogleData_get_cse_id(self) ==
    [self |-> self, ret |-> Ok(JStr(self.cse_id))]

\* the `_` arm of GoogleData::apply
GoogleData_unknown(self, name) ==
    [self |-> self, ret |-> Err(PluginDataNoInvoke("Google", name))]

\* impl PluginData for GoogleData: the dispatch table
GoogleData_apply(self, name, value) ==
    CASE name = "get api key" -> GoogleData_get_api_key(self)
      [] name = "get cse id" -> GoogleData_get_cse_id(self)
      [] OTHER -> GoogleData_unknown(self, name)

(***************************************************************************)
(* The Browse plugin, which the google command depends on: only its        *)
(* "browse" operation, which suspends on the web request.                  *)
(***************************************************************************)
BrowseData == [type |-> "BrowseData"]

BrowseData_apply(self, name, value) ==
    IF name = "browse" THEN [self |-> self, ret |-> Await(value)]
    ELSE [self |-> self, ret |-> Err(PluginDataNoInvoke("Browse", name))]

(***************************************************************************)
(* The protocol: dynamic dispatch and the typed invocation wrapper.        *)
(***************************************************************************)
\* Box<dyn PluginData>::apply
apply(data, name, value) ==
    CASE data.type = "ChatGPTData" -> ChatGPTData_apply(data, name, value)
      [] data.type = "GoogleData" -> GoogleData_apply(data, name, value)
      [] data.type = "BrowseData" -> BrowseData_apply(data, name, value)

\* serde_json::from_value::<T> for the result types of the call sites
from_value(T, value) ==
    CASE T = "usize" -> IF value.kind = "Number" /\ value.n >= 0 THEN Ok(value.n) ELSE Err(SerdeError)
      [] T = "bool" -> IF value.kind = "Bool" THEN Ok(value.b) ELSE Err(SerdeError)
      [] T = "String" -> IF value.kind = "String" THEN Ok(value.s) ELSE Err(SerdeError)

\* `let v = value; K(v)`: value is evaluated once and bound
Then(value, K(_)) == CHOOSE r \in {K(v) : v \in {value}} : TRUE

\* invoke::<T>(data, name, request): apply, then decode the result as T;
\* a failure, a suspension or a panic of apply passes through.  The result
\* of apply itself is kept for the log.
invoke(T, data, name, request) ==
    Then(apply(data, name, request), LAMBDA r :
        [self |-> r.self,
         ret |-> IF IsOk(r.ret) THEN from_value(T, r.ret.val) ELSE r.ret,
         applied |-> r.ret])

(***************************************************************************)
(* State construction: PluginCycle::create_data.                           *)
(***************************************************************************)
\* serde_json::from_value::<ChatGPTPluginConfig>: an object with a string "api key"
ChatGPTPluginConfig_from_value(value) ==
    IF value.kind # "Object" THEN Err(SerdeError)
    ELSE IF "api key" \notin DOMAIN value.map THEN Err(SerdeError)
    ELSE IF value.map["api key"].kind # "String" THEN Err(SerdeError)
    ELSE Ok([api_key |-> value.map["api key"].s])

\* create_data falling back to an empty credential when the configuration
\* does not deserialize
ChatGPTCycle_create_data_Defaulted(value) ==
    LET config == ChatGPTPluginConfig_from_value(value) IN
    ChatGPTData(IF IsOk(config) THEN config.val.api_key ELSE "", <<>>)

\* ChatGPTCycle::create_data
ChatGPTCycle_create_data(value) ==
    LET config == ChatGPTPluginConfig_from_value(value) IN
    IF ~ IsOk(config) THEN None
    ELSE ChatGPTData(config.val.api_key, <<>>)

\* serde_json::from_value::<GoogleData>: an object with string "cse id" and "api key"
GoogleData_from_value(value) ==
    IF value.kind # "Object" THEN Err(SerdeError)
    ELSE IF ~ ({"cse id", "api key"} \subseteq DOMAIN value.map) THEN Err(SerdeError)
    ELSE IF value.map["cse id"].kind # "String" THEN Err(SerdeError)
    ELSE IF value.map["api key"].kind # "String" THEN Err(SerdeError)
    ELSE Ok(GoogleData(value.map["cse id"].s, value.map["api key"].s))

\* GoogleCycle::create_data
GoogleCycle_create_data(value) ==
    LET data == GoogleData_from_value(value) IN
    IF ~ IsOk(data) THEN None ELSE data.val

\* the construction hook of the Browse plugin
BrowseCycle_create_data(value) == BrowseData

\* Plugin.cycle.create_data of the plugin registered under the name
create_data(plugin, value) ==
    CASE plugin = "ChatGPT" -> ChatGPTCycle_create_data(value)
      [] plugin = "Google" -> GoogleCycle_create_data(value)
      [] plugin = "Browse" -> BrowseCycle_create_data(value)

(***************************************************************************)
(* Commands.  An execution e is the State Store of the command's context   *)
(* (pd), the lookups and apply calls made so far (log) and the value of    *)
(* the last expression (ret); `?` returns the execution whose ret is a     *)
(* failure.                                                                *)
(***************************************************************************)
\* A log entry records a lookup or an apply call: its outcome (tag) and what
\* came out of it (out): the value, the error, or the request that a
\* suspended operation sent.  When a suspended operation completes, tag
\* becomes the outcome of the completed operation.
LookupEntry(plugin, tag) ==
    [kind |-> "get_data", plugin |-> plugin, op |-> "", arg |-> JNull, tag |-> tag, out |-> JNull]
ApplyEntry(plugin, op, arg, ret) ==
    [kind |-> "apply", plugin |-> plugin, op |-> op, arg |-> arg, tag |-> ret.tag,
     out |-> CASE ret.tag = "Ok" -> ret.val
               [] ret.tag = "Err" -> ret.err
               [] ret.tag = "Await" -> ret.request
               [] ret.tag = "Panic" -> JNull]

\* PluginStore::get_data(name)
get_data(e, name) ==
    IF e.pd[name] = None
    THEN [e EXCEPT !.log = Append(@, LookupEntry(name, "Err")),
                   !.ret = Err(NoPluginDataError(name))]
    ELSE [e EXCEPT !.log = Append(@, LookupEntry(name, "Ok")), !.ret = Ok(name)]

\* invoke::<T>(info, name, request) on the State Object stored under plugin
Call(e, T, plugin, name, request) ==
    Then(invoke(T, e.pd[plugin], name, request), LAMBDA r :
        [pd |-> [e.pd EXCEPT ![plugin] = r.self],
         log |-> Append(e.log, ApplyEntry(plugin, name, request, r.applied)),
         ret |-> r.ret])

\* `let v = step?; K(v)`: a step that does not succeed ends the command
Try(step, K(_)) == Then(step, LAMBDA v : IF IsOk(v.ret) THEN K(v) ELSE v)

\* ask_chatgpt pushing the system message after the user message
ask_chatgpt_SystemLate(e, query) ==
    Try(get_data(e, "ChatGPT"), LAMBDA chatgpt_info :
    Try(Call(chatgpt_info, "usize", "ChatGPT", "len", JBool(TRUE)), LAMBDA len :
    Try(Call(len, "bool", "ChatGPT", "push",
             ChatGPTMessage_to_value(ChatGPTMessage("ChatGPTRole::User", query))), LAMBDA user :
    Try(IF len.ret.val = 0
        THEN Call(user, "bool", "ChatGPT", "push",
                  ChatGPTMessage_to_value(ChatGPTMessage("ChatGPTRole::System", CHAT_GPT_PROMPT)))
        ELSE user, LAMBDA sys :
    Call(sys, "String", "ChatGPT", "respond", JBool(TRUE))))))

\* ask_chatgpt pushing the system message whatever "len" returned
ask_chatgpt_SystemAlways(e, query) ==
    Try(get_data(e, "ChatGPT"), LAMBDA chatgpt_info :
    Try(Call(chatgpt_info, "usize", "ChatGPT", "len", JBool(TRUE)), LAMBDA len :
    Try(Call(len, "bool", "ChatGPT", "push",
             ChatGPTMessage_to_value(ChatGPTMessage("ChatGPTRole::System", CHAT_GPT_PROMPT))),
        LAMBDA sys :
    Try(Call(sys, "bool", "ChatGPT", "push",
             ChatGPTMessage_to_value(ChatGPTMessage("ChatGPTRole::User", query))), LAMBDA user :
    Call(user, "String", "ChatGPT", "respond", JBool(TRUE))))))

\* ask_chatgpt, up to the .await of the provider call inside "respond"
ask_chatgpt(e, query) ==
    Try(get_data(e, "ChatGPT"), LAMBDA chatgpt_info :
    Try(Call(chatgpt_info, "usize", "ChatGPT", "len", JBool(TRUE)), LAMBDA len :
    Try(IF len.ret.val = 0
        THEN Call(len, "bool", "ChatGPT", "push",
                  ChatGPTMessage_to_value(ChatGPTMessage("ChatGPTRole::System", CHAT_GPT_PROMPT)))
        ELSE len, LAMBDA sys :
    Try(Call(sys, "bool", "ChatGPT", "push",
             ChatGPTMessage_to_value(ChatGPTMessage("ChatGPTRole::User", query))), LAMBDA user :
    Call(user, "String", "ChatGPT", "respond", JBool(TRUE))))))

\* ask_chatgpt answering with an empty assistant message when the provider
\* call fails
ask_chatgpt_resume_Swallowed(e, response) ==
    Then(IF IsErr(ChatGPTData_respond_resume(response))
         THEN Ok(JStr(""))
         ELSE ChatGPTData_respond_resume(response), LAMBDA result :
    Try([e EXCEPT !.log[Len(e.log)].tag = ChatGPTData_respond_resume(response).tag,
                  !.ret = result], LAMBDA respond :
    Try([respond EXCEPT !.ret = from_value("String", respond.ret.val)], LAMBDA content :
    Try(Call(content, "bool", "ChatGPT", "push",
             ChatGPTMessage_to_value(ChatGPTMessage("ChatGPTRole::Assistant", content.ret.val))),
        LAMBDA assistant :
    [assistant EXCEPT !.ret = Ok(content.ret.val)]))))

\* ask_chatgpt taking its user message back out of the memory when the
\* provider call fails
ask_chatgpt_resume_RolledBack(e, response) ==
    IF IsErr(ChatGPTData_respond_resume(response))
    THEN [e EXCEPT !.log[Len(e.log)].tag = "Err",
                   !.ret = ChatGPTData_respond_resume(response),
                   !.pd["ChatGPT"].memory = SubSeq(@, 1, Len(@) - 1)]
    ELSE
    Try([e EXCEPT !.log[Len(e.log)].tag = ChatGPTData_respond_resume(response).tag,
                  !.ret = ChatGPTData_respond_resume(response)], LAMBDA respond :
    Try([respond EXCEPT !.ret = from_value("String", respond.ret.val)], LAMBDA content :
    Try(Call(content, "bool", "ChatGPT", "push",
             ChatGPTMessage_to_value(ChatGPTMessage("ChatGPTRole::Assistant", content.ret.val))),
        LAMBDA assistant :
    [assistant EXCEPT !.ret = Ok(content.ret.val)])))

\* ask_chatgpt returning the answer without recording it in the memory
ask_chatgpt_resume_Unrecorded(e, response) ==
    Try([e EXCEPT !.log[Len(e.log)].tag = ChatGPTData_respond_resume(response).tag,
                  !.ret = ChatGPTData_respond_resume(response)], LAMBDA respond :
    Try([respond EXCEPT !.ret = from_value("String", respond.ret.val)], LAMBDA content :
    [content EXCEPT !.ret = Ok(content.ret.val)]))

\* ask_chatgpt, from the completion of the provider call: the rest of
\* "respond", invoke's decoding of its result, the assistant push
ask_chatgpt_resume(e, response) ==
    Try([e EXCEPT !.log[Len(e.log)].tag = ChatGPTData_respond_resume(response).tag,
                  !.ret = ChatGPTData_respond_resume(response)], LAMBDA respond :
    Try([respond EXCEPT !.ret = from_value("String", respond.ret.val)], LAMBDA content :
    Try(Call(content, "bool", "ChatGPT", "push",
             ChatGPTMessage_to_value(ChatGPTMessage("ChatGPTRole::Assistant", content.ret.val))),
        LAMBDA assistant :
    [assistant EXCEPT !.ret = Ok(content.ret.val)])))

\* chatgpt: the ask-chatgpt command, up to the .await
chatgpt(e, args) ==
    IF "query" \notin DOMAIN args
    THEN [e EXCEPT !.ret = Err(CommandNoArgError("ask-chatgpt", "query"))]
    ELSE ask_chatgpt(e, args["query"])

\* reset_chatgpt: the reset-chatgpt command
reset_chatgpt(e, args) ==
    Try(get_data(e, "ChatGPT"), LAMBDA chatgpt_info :
    Try(Call(chatgpt_info, "bool", "ChatGPT", "clear", JBool(TRUE)), LAMBDA cleared :
    [cleared EXCEPT !.ret = Ok("Successful.")]))

\* BrowseRequest { url, params } as the payload of "browse"
BrowseRequest(params) ==
    JObj([url |-> JStr("https://www.googleapis.com/customsearch/v1"),
          params |-> JArr([i \in 1..Len(params) |->
                             JArr(<<JStr(params[i][1]), JStr(params[i][2])>>)])])

\* google answering with its "unable to parse" text when it cannot reach
\* the Browse plugin
google_BrowseOptional(e, args) ==
    Try(get_data(e, "Google"), LAMBDA wolfram_info :
    Try(Call(wolfram_info, "String", "Google", "get api key", JBool(TRUE)), LAMBDA api_key :
    Try(Call(api_key, "String", "Google", "get cse id", JBool(TRUE)), LAMBDA cse_id :
    Try(IF "query" \notin DOMAIN args
        THEN [cse_id EXCEPT !.ret = Err(GoogleNoQueryError)]
        ELSE [cse_id EXCEPT !.ret = Ok(args["query"])], LAMBDA query :
    IF query.pd["Browse"] = None
    THEN [query EXCEPT !.ret = Ok("Unable to parse your Google request for \"hi\" Try modifying your query or waiting a bit.")]
    ELSE
    Try(get_data(query, "Browse"), LAMBDA browse_info :
    Call(browse_info, "String", "Browse", "browse",
         BrowseRequest(<< <<"key", api_key.ret.val>>, <<"cx", cse_id.ret.val>>,
                          <<"q", query.ret.val>>, <<"num", "7">> >>)))))))

\* google: the google command, up to the .await of the browse request
google(e, args) ==
    Try(get_data(e, "Google"), LAMBDA wolfram_info :
    Try(Call(wolfram_info, "String", "Google", "get api key", JBool(TRUE)), LAMBDA api_key :
    Try(Call(api_key, "String", "Google", "get cse id", JBool(TRUE)), LAMBDA cse_id :
    Try(IF "query" \notin DOMAIN args
        THEN [cse_id EXCEPT !.ret = Err(GoogleNoQueryError)]
        ELSE [cse_id EXCEPT !.ret = Ok(args["query"])], LAMBDA query :
    Try(get_data(query, "Browse"), LAMBDA browse_info :
    Call(browse_info, "String", "Browse", "browse",
         BrowseRequest(<< <<"key", api_key.ret.val>>, <<"cx", cse_id.ret.val>>,
                          <<"q", query.ret.val>>, <<"num", "7">> >>)))))))

\* the search response bodies that serde_json::from_str::<SearchResponse> accepts
ParsableBody == "{\"items\": []}"
UnparsableBody == "<html>quota exceeded</html>"

\* format!("Unable to parse your Google request for \"{query}\" ...")
UnableToParse(query) ==
    CASE query = "hi" -> "Unable to parse your Google request for \"hi\" Try modifying your query or waiting a bit."

\* format!("{text} You may want to consider using 'browse-article' ...")
SearchText(body) ==
    CASE body = ParsableBody -> "{\"items\":[]} You may want to consider using 'browse-article' to browse the searched websites."

\* google, from the completion of the browse request: invoke's decoding of
\* the body, then the parse of the search response
google_resume(e, query, response) ==
    Try([e EXCEPT !.log[Len(e.log)].tag = response.tag, !.ret = response], LAMBDA browsed :
    Try([browsed EXCEPT !.ret = from_value("String", browsed.ret.val)], LAMBDA body :
    IF body.ret.val # ParsableBody
    THEN [body EXCEPT !.ret = Ok(UnableToParse(query))]
    ELSE [body EXCEPT !.ret = Ok(SearchText(body.ret.val))]))

(***************************************************************************)
(* Inputs.                                                                 *)
(***************************************************************************)
Contexts == {"c1"}
PluginNames == {"ChatGPT", "Google", "Browse"}

\* configuration payloads handed to create_data
EmptyMap == [k \in {} |-> JNull]
ChatGPTConfigs ==
    {JObj("api key" :> JStr("sk-1")), JObj("api key" :> JStr("")),
     JObj("api key" :> JNum(7)), JObj(EmptyMap), JNull}
GoogleConfigs ==
    {JObj(("api key" :> JStr("gk")) @@ ("cse id" :> JStr("cx"))),
     JObj("api key" :> JStr("gk")), JObj("cse id" :> JStr("cx")),
     JObj(("api key" :> JNum(7)) @@ ("cse id" :> JStr("cx"))),
     JObj(("api key" :> JStr("gk")) @@ ("cse id" :> JNull)),
     JStr("gk")}
Configs(plugin) ==
    CASE plugin = "ChatGPT" -> ChatGPTConfigs
      [] plugin = "Google" -> GoogleConfigs
      [] plugin = "Browse" -> {JNull}

\* payloads handed to "push": messages, and values that are no message
Messages ==
    {ChatGPTMessage_to_value(ChatGPTMessage("ChatGPTRole::User", "hi")),
     ChatGPTMessage_to_value(ChatGPTMessage("ChatGPTRole::Assistant", "ok")),
     ChatGPTMessage_to_value(ChatGPTMessage("ChatGPTRole::System", CHAT_GPT_PROMPT))}
NonMessages ==
    {JBool(TRUE), JStr("hi"),
     JObj([role |-> JStr("Function"), content |-> JStr("hi")]),
     JObj([role |-> JStr("User"), content |-> JNum(7)]),
     JObj([role |-> JStr("User")])}

\* operation names handed to apply: each plugin's own, one of the other
\* plugin's, and one that no plugin has
OpNames(plugin) ==
    CASE plugin = "ChatGPT" -> {"len", "push", "clear", "respond", "get", "get api key", "nonexistent"}
      [] plugin = "Google" -> {"get api key", "get cse id", "len", "nonexistent"}
Payloads(plugin, name) ==
    IF plugin = "ChatGPT" /\ name = "push" THEN Messages \cup NonMessages ELSE {JBool(TRUE)}

\* argument mappings handed to the commands
NoArgs == [k \in {} |-> ""]
ArgMaps == {NoArgs, "query" :> "hi"}

\* outcomes of the completion provider's chat().create(request)
Choice(content) == [message |-> [role |-> "Role::Assistant", content |-> content]]
ProviderResponses ==
    {Err(OpenAIError), Ok([choices |-> <<>>]), Ok([choices |-> <<Choice("ok")>>]),
     Ok([choices |-> <<Choice("ok"), Choice("alt")>>])}

\* outcomes of the Browse plugin's "browse"
BrowseResponses == {Err(BrowseError), Ok(JStr(ParsableBody)), Ok(JStr(UnparsableBody))}

(***************************************************************************)
(* State.                                                                  *)
(***************************************************************************)
VARIABLES
    plugin_data,   \* per context, the State Store: plugin name -> State Object or None
    pc,            \* per context: "idle", "await" (suspended on an external call), "panicked"
    frame,         \* per context: the suspended invocation
    last,          \* per context: the most recent completed invocation and its outcome
    calls,         \* per context: lookups and apply calls of the current or most recent invocation
    ghost_pushed,  \* per context: payloads of the successful pushes since construction or the last clear
    ghost_pushes,  \* per context: number of successful pushes
    ghost_clears   \* per context: number of clears

vars == <<plugin_data, pc, frame, last, calls, ghost_pushed, ghost_pushes, ghost_clears>>

CallRec(kind, plugin, name, arg) == [kind |-> kind, plugin |-> plugin, name |-> name, arg |-> arg]
NoCall == CallRec("none", "", "", JNull)
NoFrame == [call |-> NoCall]
NoRet == [tag |-> "None"]
\* Option<Box<dyn PluginData>>::Some
Some(v) == [tag |-> "Some", val |-> v]

Init ==
    /\ plugin_data = [c \in Contexts |-> [p \in PluginNames |-> None]]
    /\ pc = [c \in Contexts |-> "idle"]
    /\ frame = [c \in Contexts |-> NoFrame]
    /\ last = [c \in Contexts |-> [call |-> NoCall, ret |-> NoRet]]
    /\ calls = [c \in Contexts |-> <<>>]
    /\ ghost_pushed = [c \in Contexts |-> <<>>]
    /\ ghost_pushes = [c \in Contexts |-> 0]
    /\ ghost_clears = [c \in Contexts |-> 0]

\* the execution a command or a direct apply starts from in context c
Start(c) == [pd |-> plugin_data[c], log |-> <<>>, ret |-> Ok(JNull)]

\* the execution resuming from a State Store whose memory an operation of
\* another task cleared during the suspension
Resume_Interleaved(c) ==
    [pd |-> [plugin_data[c] EXCEPT !["ChatGPT"].memory = <<>>], log |-> calls[c], ret |-> Ok(JNull)]

\* the execution a suspended invocation in context c resumes from
Resume(c) == [pd |-> plugin_data[c], log |-> calls[c], ret |-> Ok(JNull)]

\* the memory of the ChatGPT State Object of a State Store (empty when absent)
MemoryOf(pd) == IF pd["ChatGPT"] = None THEN <<>> ELSE pd["ChatGPT"].memory

IsMemOp(entry, name) ==
    entry.kind = "apply" /\ entry.plugin = "ChatGPT" /\ entry.op = name /\ entry.tag = "Ok"

\* the pushes since the last clear, after the apply calls in entries
RECURSIVE Replay(_, _)
Replay(seq, entries) ==
    IF entries = <<>> THEN seq
    ELSE Replay(IF IsMemOp(Head(entries), "push") THEN Append(seq, Head(entries).arg)
                ELSE IF IsMemOp(Head(entries), "clear") THEN <<>>
                ELSE seq,
                Tail(entries))

CountOps(entries, name) == Cardinality({i \in DOMAIN entries : IsMemOp(entries[i], name)})

\* the part of the log e.log that was added to the log before
NewEntries(before, e) == SubSeq(e.log, Len(before) + 1, Len(e.log))

\* an invocation whose State Store is one store shared by all contexts
Reach_Shared(c, call, e, entries, reserve, counted) ==
    /\ Len(MemoryOf(e.pd)) + reserve <= MaxMem
    /\ plugin_data' = [d \in DOMAIN plugin_data |-> e.pd]
    /\ calls' = [calls EXCEPT ![c] = e.log]
    /\ ghost_pushed' = [ghost_pushed EXCEPT ![c] = Replay(@, entries)]
    /\ UNCHANGED <<ghost_pushes, ghost_clears>>
    /\ IF e.ret.tag = "Await"
       THEN /\ pc' = [pc EXCEPT ![c] = "await"]
            /\ frame' = [frame EXCEPT ![c] = [call |-> call]]
            /\ UNCHANGED last
       ELSE /\ pc' = [pc EXCEPT ![c] = IF e.ret.tag = "Panic" THEN "panicked" ELSE "idle"]
            /\ frame' = [frame EXCEPT ![c] = NoFrame]
            /\ last' = [last EXCEPT ![c] = [call |-> call, ret |-> e.ret]]

\* an invocation in context c reaches execution e: it has returned, panicked
\* or is suspended; entries are the log entries it added in this step,
\* reserve is the number of pushes a suspended invocation still makes and
\* room is the longest memory explored.  The push and clear counters run
\* when counted, and are then capped.
ReachWithin(c, call, e, entries, reserve, counted, room) ==
    /\ Len(MemoryOf(e.pd)) + reserve <= room
    /\ counted => /\ ghost_pushes[c] + CountOps(entries, "push") + reserve <= MaxPushes
                  /\ ghost_clears[c] + CountOps(entries, "clear") <= MaxClears
    /\ plugin_data' = [plugin_data EXCEPT ![c] = e.pd]
    /\ calls' = [calls EXCEPT ![c] = e.log]
    /\ ghost_pushed' = [ghost_pushed EXCEPT ![c] = Replay(@, entries)]
    /\ ghost_pushes' = [ghost_pushes EXCEPT ![c] = IF counted THEN @ + CountOps(entries, "push") ELSE @]
    /\ ghost_clears' = [ghost_clears EXCEPT ![c] = IF counted THEN @ + CountOps(entries, "clear") ELSE @]
    /\ IF e.ret.tag = "Await"
       THEN /\ pc' = [pc EXCEPT ![c] = "await"]
            /\ frame' = [frame EXCEPT ![c] = [call |-> call]]
            /\ UNCHANGED last
       ELSE /\ pc' = [pc EXCEPT ![c] = IF e.ret.tag = "Panic" THEN "panicked" ELSE "idle"]
            /\ frame' = [frame EXCEPT ![c] = NoFrame]
            /\ last' = [last EXCEPT ![c] = [call |-> call, ret |-> e.ret]]

Reach(c, call, e, entries, reserve, counted) ==
    ReachWithin(c, call, e, entries, reserve, counted, MaxMem)

(***************************************************************************)
(* Actions.                                                                *)
(***************************************************************************)
\* the registering code runs the construction hook of a plugin and stores
\* the State Object, if any, under the plugin's name
CreateData(c, plugin, value) ==
    /\ pc[c] = "idle"
    /\ plugin_data[c][plugin] = None
    /\ \E data \in {create_data(plugin, value)} :
       /\ plugin_data' = [plugin_data EXCEPT ![c][plugin] = data]
       /\ last' = [last EXCEPT ![c] = [call |-> CallRec("create_data", plugin, "create_data", value),
                                       ret |-> IF data = None THEN NoRet ELSE Some(data)]]
    /\ calls' = [calls EXCEPT ![c] = <<>>]
    /\ UNCHANGED <<pc, frame, ghost_pushed, ghost_pushes, ghost_clears>>

\* a direct call of apply on the State Object stored under plugin
ApplyExec(e, plugin, name, value) ==
    Then(apply(e.pd[plugin], name, value), LAMBDA r :
        [pd |-> [e.pd EXCEPT ![plugin] = r.self],
         log |-> Append(e.log, ApplyEntry(plugin, name, value, r.ret)),
         ret |-> r.ret])

ApplyOp(c, plugin, name, value, counted) ==
    /\ pc[c] = "idle"
    /\ plugin_data[c][plugin] # None
    /\ \E e \in {ApplyExec(Start(c), plugin, name, value)} :
       Reach(c, CallRec("apply", plugin, name, value), e, e.log, 0, counted)

\* the provider call of a direct "respond" completes
ApplyRespondComplete(c, response) ==
    /\ pc[c] = "await"
    /\ frame[c].call.kind = "apply"
    /\ \E ret \in {ChatGPTData_respond_resume(response)} :
       \E e \in {[pd |-> plugin_data[c],
                  log |-> [calls[c] EXCEPT ![Len(calls[c])].tag = ret.tag],
                  ret |-> ret]} :
       Reach(c, frame[c].call, e, <<>>, 0, FALSE)

\* the ask-chatgpt command is invoked
ChatgptWithin(c, args, counted, room) ==
    /\ pc[c] = "idle"
    /\ \E e \in {chatgpt(Start(c), args)} :
       ReachWithin(c, CallRec("command", "ChatGPT", "ask-chatgpt", args), e, e.log,
                   IF e.ret.tag = "Await" THEN 1 ELSE 0, counted, room)

ChatgptOp(c, args, counted) == ChatgptWithin(c, args, counted, MaxMem)

\* the provider call of ask-chatgpt's "respond" completes
ChatgptCompleteWithin(c, response, counted, room) ==
    /\ pc[c] = "await"
    /\ frame[c].call.name = "ask-chatgpt"
    /\ \E e \in {ask_chatgpt_resume(Resume(c), response)} :
       ReachWithin(c, frame[c].call, e, NewEntries(calls[c], e), 0, counted, room)

ChatgptCompleteOp(c, response, counted) == ChatgptCompleteWithin(c, response, counted, MaxMem)

\* the reset-chatgpt command is invoked
ResetChatgptOp(c, args, counted) ==
    /\ pc[c] = "idle"
    /\ \E e \in {reset_chatgpt(Start(c), args)} :
       Reach(c, CallRec("command", "ChatGPT", "reset-chatgpt", args), e, e.log, 0, counted)

\* the google command is invoked
Google(c, args) ==
    /\ pc[c] = "idle"
    /\ \E e \in {google(Start(c), args)} :
       Reach(c, CallRec("command", "Google", "google", args), e, e.log, 0, FALSE)

\* the browse request of the google command completes
GoogleComplete(c, response) ==
    /\ pc[c] = "await"
    /\ frame[c].call.name = "google"
    /\ \E e \in {google_resume(Resume(c), frame[c].call.arg["query"], response)} :
       Reach(c, frame[c].call, e, <<>>, 0, FALSE)

Apply(c, plugin, name, value) == ApplyOp(c, plugin, name, value, FALSE)
Chatgpt(c, args) == ChatgptOp(c, args, FALSE)
ChatgptComplete(c, response) == ChatgptCompleteOp(c, response, FALSE)
ResetChatgpt(c, args) == ResetChatgptOp(c, args, FALSE)

Next ==
    \/ \E c \in Contexts, plugin \in PluginNames : \E value \in Configs(plugin) :
          CreateData(c, plugin, value)
    \/ \E c \in Contexts, plugin \in {"ChatGPT", "Google"} : \E name \in OpNames(plugin) :
          \E value \in Payloads(plugin, name) : Apply(c, plugin, name, value)
    \/ \E c \in Contexts, response \in ProviderResponses : ApplyRespondComplete(c, response)
    \/ \E c \in Contexts, args \in ArgMaps : Chatgpt(c, args)
    \/ \E c \in Contexts, response \in ProviderResponses : ChatgptComplete(c, response)
    \/ \E c \in Contexts : ResetChatgpt(c, NoArgs)
    \/ \E c \in Contexts, args \in ArgMaps : Google(c, args)
    \/ \E c \in Contexts, response \in BrowseResponses : GoogleComplete(c, response)

Spec == Init /\ [][Next]_vars

(***************************************************************************)
(* The memory plugin alone, with its pushes and clears counted.            *)
(***************************************************************************)
CountedApply(c, name, value) == ApplyOp(c, "ChatGPT", name, value, TRUE)
CountedChatgpt(c, args) == ChatgptOp(c, args, TRUE)
CountedChatgptComplete(c, response) == ChatgptCompleteOp(c, response, TRUE)
CountedResetChatgpt(c, args) == ResetChatgptOp(c, args, TRUE)

NextCounted ==
    \/ \E c \in Contexts, value \in ChatGPTConfigs : CreateData(c, "ChatGPT", value)
    \/ \E c \in Contexts, name \in OpNames("ChatGPT") :
          \E value \in Payloads("ChatGPT", name) : CountedApply(c, name, value)
    \/ \E c \in Contexts, response \in ProviderResponses : ApplyRespondComplete(c, response)
    \/ \E c \in Contexts, args \in ArgMaps : CountedChatgpt(c, args)
    \/ \E c \in Contexts, response \in ProviderResponses : CountedChatgptComplete(c, response)
    \/ \E c \in Contexts : CountedResetChatgpt(c, NoArgs)

SpecCounted == Init /\ [][NextCounted]_vars

(***************************************************************************)
(* Two conversation contexts, each with its own State Store, whose memory  *)
(* plugins are constructed from the same configuration payload.  A command *)
(* borrows its context (ctx: &mut CommandContext) until it returns, so the *)
(* contexts interleave only with each other: while a command of one        *)
(* context is suspended on the provider call, the other context runs.      *)
(***************************************************************************)
Conversations == {"c1", "c2"}
SharedConfig == JObj("api key" :> JStr("sk-1"))
ConversationOps == {"len", "push", "clear"}
ConversationPayloads(name) ==
    IF name = "push"
    THEN {ChatGPTMessage_to_value(ChatGPTMessage("ChatGPTRole::User", "hi")),
          ChatGPTMessage_to_value(ChatGPTMessage("ChatGPTRole::Assistant", "ok"))}
    ELSE {JBool(TRUE)}
ConversationResponses == {Err(OpenAIError), Ok([choices |-> <<Choice("ok")>>])}

InitConversations ==
    /\ plugin_data = [c \in Conversations |-> [p \in PluginNames |-> None]]
    /\ pc = [c \in Conversations |-> "idle"]
    /\ frame = [c \in Conversations |-> NoFrame]
    /\ last = [c \in Conversations |-> [call |-> NoCall, ret |-> NoRet]]
    /\ calls = [c \in Conversations |-> <<>>]
    /\ ghost_pushed = [c \in Conversations |-> <<>>]
    /\ ghost_pushes = [c \in Conversations |-> 0]
    /\ ghost_clears = [c \in Conversations |-> 0]

NextConversations ==
    \/ \E c \in Conversations : CreateData(c, "ChatGPT", SharedConfig)
    \/ \E c \in Conversations, name \in ConversationOps :
          \E value \in ConversationPayloads(name) : Apply(c, "ChatGPT", name, value)
    \/ \E c \in Conversations : Chatgpt(c, "query" :> "hi")
    \/ \E c \in Conversations, response \in ConversationResponses : ChatgptComplete(c, response)
    \/ \E c \in Conversations : ResetChatgpt(c, NoArgs)

SpecConversations == InitConversations /\ [][NextConversations]_vars

(***************************************************************************)
(* A conversation driven through the commands alone: ask-chatgpt and       *)
(* reset-chatgpt on a freshly constructed memory plugin, with the provider *)
(* failing, answering or answering without a choice; and the same          *)
(* conversation with a provider that always answers.                       *)
(***************************************************************************)
\* the longest memory MaxTurns answered ask-chatgpt commands leave
MaxConversation == 1 + 2 * MaxTurns

Queries == {"hi", "yo"}
AskArgs == {NoArgs} \cup {"query" :> q : q \in Queries}
Answers == {Ok([choices |-> <<Choice("ok")>>]), Ok([choices |-> <<Choice("alt"), Choice("ok")>>])}
CommandResponses == {Err(OpenAIError), Ok([choices |-> <<>>])} \cup Answers

Ask(c, args) == ChatgptWithin(c, args, FALSE, MaxConversation)
AskComplete(c, response) == ChatgptCompleteWithin(c, response, FALSE, MaxConversation)

NextCommands ==
    \/ \E c \in Contexts, value \in ChatGPTConfigs : CreateData(c, "ChatGPT", value)
    \/ \E c \in Contexts, args \in AskArgs : Ask(c, args)
    \/ \E c \in Contexts, response \in CommandResponses : AskComplete(c, response)
    \/ \E c \in Contexts : ResetChatgpt(c, NoArgs)

SpecCommands == Init /\ [][NextCommands]_vars

NextAnswered ==
    \/ \E c \in Contexts, value \in ChatGPTConfigs : CreateData(c, "ChatGPT", value)
    \/ \E c \in Contexts, args \in AskArgs : Ask(c, args)
    \/ \E c \in Contexts, response \in Answers : AskComplete(c, response)
    \/ \E c \in Contexts : ResetChatgpt(c, NoArgs)

SpecAnswered == Init /\ [][NextAnswered]_vars

(***************************************************************************)
(* Properties.                                                             *)
(***************************************************************************)
\* the most recent completed invocation in context c is this direct apply,
\* and nothing has run in c since
LastApply(c, plugin, name) ==
    /\ pc[c] = "idle"
    /\ last[c].call.kind = "apply"
    /\ last[c].call.plugin = plugin
    /\ last[c].call.name = name

\* the most recent completed invocation in context c is this command
LastCommand(c, name) ==
    /\ pc[c] = "idle"
    /\ last[c].call.kind = "command"
    /\ last[c].call.name = name

\* the dispatch tables as the specification lists them
DispatchTable(plugin) ==
    CASE plugin = "ChatGPT" -> {"len", "push", "clear", "respond", "get"}
      [] plugin = "Google" -> {"get api key", "get cse id"}

\* C1: an operation name that is not in the plugin's dispatch table yields
\* the unknown-operation error carrying that plugin's name and the requested
\* name, never a success value.
C1_UnknownOperation ==
    \A c \in Contexts, plugin \in {"ChatGPT", "Google"} :
        (/\ pc[c] # "await"
         /\ last[c].call.kind = "apply"
         /\ last[c].call.plugin = plugin
         /\ last[c].call.name \notin DispatchTable(plugin))
        => /\ last[c].ret = Err(PluginDataNoInvoke(plugin, last[c].call.name))
           /\ ~ IsOk(last[c].ret)

\* "nonexistent" was applied to a ChatGPT State Object that holds messages
C1_Witness ==
    \E c \in Contexts :
        /\ LastApply(c, "ChatGPT", "nonexistent")
        /\ Len(MemoryOf(plugin_data[c])) > 0
        /\ last[c].ret = Err(PluginDataNoInvoke("ChatGPT", "nonexistent"))

\* C2: get returns exactly the messages pushed since construction or the
\* last clear, in insertion order with role and content preserved, and len
\* returns their number; so a get right after a push ends with the pushed
\* message, and after the single push of {user, "hi"} len returns 1 and get
\* returns [{user, "hi"}].
C2_GetReturnsPushed ==
    \A c \in Contexts :
        /\ LastApply(c, "ChatGPT", "get") => last[c].ret = Ok(JArr(ghost_pushed[c]))
        /\ LastApply(c, "ChatGPT", "len") => last[c].ret = Ok(JNum(Len(ghost_pushed[c])))
        /\ (LastApply(c, "ChatGPT", "push") /\ IsOk(last[c].ret))
           => /\ ghost_pushed[c] # <<>>
              /\ ghost_pushed[c][Len(ghost_pushed[c])] = last[c].call.arg
              /\ ChatGPTData_get(plugin_data[c]["ChatGPT"]).ret = Ok(JArr(ghost_pushed[c]))

\* get returned the user message "hi" and then the assistant message "ok"
C2_Witness ==
    \E c \in Contexts :
        /\ LastApply(c, "ChatGPT", "get")
        /\ last[c].ret = Ok(JArr(<<JObj([role |-> JStr("User"), content |-> JStr("hi")]),
                                   JObj([role |-> JStr("Assistant"), content |-> JStr("ok")])>>))

\* C3 as stated: len equals the number of successful pushes minus the
\* number of clears.
C3_LenIsPushesMinusClears ==
    \A c \in Contexts :
        LastApply(c, "ChatGPT", "len")
        => last[c].ret = Ok(JNum(ghost_pushes[c] - ghost_clears[c]))

\* C3, amended: len equals the number of successful pushes since
\* construction or the last clear: all successful pushes while there has
\* been no clear, and never more than all of them.
C3_LenIsPushesSinceClear ==
    \A c \in Contexts :
        LastApply(c, "ChatGPT", "len")
        => /\ last[c].ret = Ok(JNum(Len(ghost_pushed[c])))
           /\ Len(ghost_pushed[c]) <= ghost_pushes[c]
           /\ ghost_clears[c] = 0 => last[c].ret = Ok(JNum(ghost_pushes[c]))

\* len was applied after two pushes, a clear and two more pushes
C3_Witness ==
    \E c \in Contexts :
        /\ LastApply(c, "ChatGPT", "len")
        /\ ghost_pushes[c] = 4
        /\ ghost_clears[c] = 1
        /\ last[c].ret = Ok(JNum(2))

\* a payload that is a {role, content} message with a valid role
IsMessagePayload(value) ==
    /\ value.kind = "Object"
    /\ DOMAIN value.map = {"role", "content"}
    /\ value.map["role"] \in {JStr("System"), JStr("User"), JStr("Assistant")}
    /\ value.map["content"].kind = "String"

\* C4: clear succeeds and leaves the State Object in the store with an
\* empty memory, and the operation that follows it immediately sees that:
\* len returns 0, get returns the empty sequence, and a push of a message
\* succeeds and makes it the only message.
C4_ClearThenLen ==
    /\ [](\A c \in Contexts :
            (LastApply(c, "ChatGPT", "clear")
                \/ (LastCommand(c, "reset-chatgpt") /\ plugin_data[c]["ChatGPT"] # None))
            => /\ IsOk(last[c].ret)
               /\ plugin_data[c]["ChatGPT"] # None
               /\ plugin_data[c]["ChatGPT"].memory = <<>>)
    /\ [][\A c \in Contexts :
            (/\ LastApply(c, "ChatGPT", "clear")
                  \/ (LastCommand(c, "reset-chatgpt") /\ IsOk(last[c].ret))
             /\ pc'[c] = "idle"
             /\ last'[c].call.kind = "apply"
             /\ last'[c].call.plugin = "ChatGPT")
            => /\ last'[c].call.name = "len" => last'[c].ret = Ok(JNum(0))
               /\ last'[c].call.name = "get" => last'[c].ret = Ok(JArr(<<>>))
               /\ (last'[c].call.name = "push" /\ IsMessagePayload(last'[c].call.arg))
                  => /\ last'[c].ret = Ok(JBool(TRUE))
                     /\ Len(plugin_data'[c]["ChatGPT"].memory) = 1
                     /\ plugin_data'[c]["ChatGPT"].client = plugin_data[c]["ChatGPT"].client]_vars

\* len returned 0 on a State Object that had been pushed to and cleared
C4_Witness ==
    \E c \in Contexts :
        /\ LastApply(c, "ChatGPT", "len")
        /\ last[c].ret = Ok(JNum(0))
        /\ ghost_pushes[c] >= 2
        /\ ghost_clears[c] >= 1

\* the apply calls of the log, and those of one operation
Applies(log) == {i \in DOMAIN log : log[i].kind = "apply"}
AppliesOf(log, name) == {i \in Applies(log) : log[i].op = name}

\* the ask-chatgpt invocation that completed last in context c found the
\* memory empty: its "len" returned 0
AskedOnEmpty(c) ==
    \E i \in AppliesOf(calls[c], "len") : calls[c][i].out = JNum(0)

\* C5: when ask-chatgpt pushes the user message into an empty memory and
\* respond returns the provider's text, the memory is exactly [system,
\* user, assistant]: the fixed system message, then the query, then the
\* returned text.
C5_SystemUserAssistant ==
    \A c \in Contexts :
        (LastCommand(c, "ask-chatgpt") /\ IsOk(last[c].ret) /\ AskedOnEmpty(c))
        => /\ plugin_data[c]["ChatGPT"].memory =
                <<ChatCompletionRequestMessage("Role::System", CHAT_GPT_PROMPT),
                  ChatCompletionRequestMessage("Role::User", last[c].call.arg["query"]),
                  ChatCompletionRequestMessage("Role::Assistant", last[c].ret.val)>>
           /\ last[c].ret.val = "ok"

\* ask-chatgpt ran to [system, user, assistant] on a memory that had held a
\* message and was cleared
C5_Witness ==
    \E c \in Contexts :
        /\ LastCommand(c, "ask-chatgpt")
        /\ last[c].ret = Ok("ok")
        /\ AskedOnEmpty(c)
        /\ Len(plugin_data[c]["ChatGPT"].memory) = 3
        /\ ghost_clears[c] = 1
        /\ ghost_pushes[c] = 4

MissingArgumentErrors == {"CommandNoArgError", "GoogleNoQueryError"}

\* C7 as stated, where the command's own plugin is configured: a command
\* invoked without its required argument "query" fails with a
\* missing-argument error before any operation is attempted: it makes no
\* State Store lookup and no apply call.
C7_MissingArgumentFirst ==
    \A c \in Contexts, name \in {"ask-chatgpt", "google"} :
        (/\ LastCommand(c, name)
         /\ "query" \notin DOMAIN last[c].call.arg
         /\ plugin_data[c][last[c].call.plugin] # None)
        => /\ IsErr(last[c].ret)
           /\ last[c].ret.err.type \in MissingArgumentErrors
           /\ Len(calls[c]) = 0

\* C8: when the provider call inside respond fails, ask-chatgpt returns
\* that failure, respond was issued exactly once and was the invocation's
\* last call, and no assistant message was appended: the memory ends with
\* the user message of the invocation.
C8_RespondFailurePropagates ==
    \A c \in Contexts :
        (/\ LastCommand(c, "ask-chatgpt")
         /\ \E i \in AppliesOf(calls[c], "respond") : calls[c][i].tag = "Err")
        => /\ last[c].ret = Err(OpenAIError)
           /\ Cardinality(AppliesOf(calls[c], "respond")) = 1
           /\ calls[c][Len(calls[c])].op = "respond"
           /\ LET memory == plugin_data[c]["ChatGPT"].memory IN
              /\ memory # <<>>
              /\ memory[Len(memory)] =
                    ChatCompletionRequestMessage("Role::User", last[c].call.arg["query"])
              /\ memory = calls[c][Len(calls[c])].out.messages

\* ask-chatgpt failed with the provider's error on a memory of [system, user]
C8_Witness ==
    \E c \in Contexts :
        /\ LastCommand(c, "ask-chatgpt")
        /\ last[c].ret = Err(OpenAIError)
        /\ Len(plugin_data[c]["ChatGPT"].memory) = 2
        /\ plugin_data[c]["ChatGPT"].memory[1].role = "Role::System"

\* C9: a command whose State Store lookup finds nothing fails with the
\* plugin-absent error, which is not the unknown-operation error, and
\* applies nothing to the absent plugin: ask-chatgpt and reset-chatgpt
\* without "ChatGPT" and google without "Google" make no apply call at all,
\* and google without "Browse" sends no browse request.
C9_PluginAbsent ==
    \A c \in Contexts :
        /\ (/\ LastCommand(c, "ask-chatgpt") \/ LastCommand(c, "reset-chatgpt")
            /\ last[c].call.name = "ask-chatgpt" => "query" \in DOMAIN last[c].call.arg
            /\ plugin_data[c]["ChatGPT"] = None)
           => /\ last[c].ret = Err(NoPluginDataError("ChatGPT"))
              /\ last[c].ret.err.type # "PluginDataNoInvoke"
              /\ Applies(calls[c]) = {}
        /\ (LastCommand(c, "google") /\ plugin_data[c]["Google"] = None)
           => /\ last[c].ret = Err(NoPluginDataError("Google"))
              /\ last[c].ret.err.type # "PluginDataNoInvoke"
              /\ Applies(calls[c]) = {}
        /\ (/\ LastCommand(c, "google")
            /\ "query" \in DOMAIN last[c].call.arg
            /\ plugin_data[c]["Google"] # None
            /\ plugin_data[c]["Browse"] = None)
           => /\ last[c].ret = Err(NoPluginDataError("Browse"))
              /\ last[c].ret.err.type # "PluginDataNoInvoke"
              /\ AppliesOf(calls[c], "browse") = {}
              /\ \A i \in Applies(calls[c]) : calls[c][i].plugin = "Google"

\* google failed for the absent Browse plugin after reading both values of
\* the Google State Object
C9_Witness ==
    \E c \in Contexts :
        /\ LastCommand(c, "google")
        /\ plugin_data[c]["Google"] # None
        /\ plugin_data[c]["Browse"] = None
        /\ last[c].ret = Err(NoPluginDataError("Browse"))
        /\ Cardinality(Applies(calls[c])) = 2

\* configuration payloads that deserialize
IsChatGPTConfig(value) ==
    /\ value.kind = "Object"
    /\ "api key" \in DOMAIN value.map
    /\ value.map["api key"].kind = "String"
IsGoogleConfig(value) ==
    /\ value.kind = "Object"
    /\ {"api key", "cse id"} \subseteq DOMAIN value.map
    /\ value.map["api key"].kind = "String"
    /\ value.map["cse id"].kind = "String"

\* the most recent completed invocation in context c constructed this plugin
LastCreate(c, plugin) ==
    /\ pc[c] = "idle"
    /\ last[c].call.kind = "create_data"
    /\ last[c].call.plugin = plugin

\* C10: state construction yields absence, and no failure, when the
\* configuration does not deserialize, and a new State Object otherwise:
\* a ChatGPT object holding the credential with an empty memory, on which
\* len returns 0; a Google object that returns the configured values for
\* "get api key" and "get cse id".
C10_ConstructionOrAbsence ==
    \A c \in Contexts :
        /\ LastCreate(c, "ChatGPT") =>
             IF IsChatGPTConfig(last[c].call.arg)
             THEN /\ last[c].ret.tag = "Some"
                  /\ plugin_data[c]["ChatGPT"] = last[c].ret.val
                  /\ last[c].ret.val.type = "ChatGPTData"
                  /\ last[c].ret.val.client.api_key = last[c].call.arg.map["api key"].s
                  /\ last[c].ret.val.memory = <<>>
                  /\ apply(last[c].ret.val, "len", JBool(TRUE)).ret = Ok(JNum(0))
             ELSE /\ last[c].ret = NoRet
                  /\ plugin_data[c]["ChatGPT"] = None
        /\ LastCreate(c, "Google") =>
             IF IsGoogleConfig(last[c].call.arg)
             THEN /\ last[c].ret.tag = "Some"
                  /\ plugin_data[c]["Google"] = last[c].ret.val
                  /\ apply(last[c].ret.val, "get api key", JBool(TRUE)).ret
                        = Ok(last[c].call.arg.map["api key"])
                  /\ apply(last[c].ret.val, "get cse id", JBool(TRUE)).ret
                        = Ok(last[c].call.arg.map["cse id"])
             ELSE /\ last[c].ret = NoRet
                  /\ plugin_data[c]["Google"] = None
        /\ LastApply(c, "Google", "get api key") => last[c].ret = Ok(JStr("gk"))
        /\ LastApply(c, "Google", "get cse id") => last[c].ret = Ok(JStr("cx"))

\* construction of ChatGPT from a configuration whose "api key" is a number
\* yielded absence, in a context where Google was constructed
C10_Witness ==
    \E c \in Contexts :
        /\ LastCreate(c, "ChatGPT")
        /\ last[c].call.arg = JObj("api key" :> JNum(7))
        /\ last[c].ret = NoRet
        /\ plugin_data[c]["ChatGPT"] = None
        /\ plugin_data[c]["Google"] # None

\* a direct apply on a State Object of context c returns in this step
ApplyReturns(c) ==
    /\ pc[c] = "idle"
    /\ pc'[c] = "idle"
    /\ last'[c].call.kind = "apply"
    /\ \/ plugin_data'[c] # plugin_data[c]
       \/ last[c].call.kind # "apply"
       \/ last'[c] # last[c]

\* a direct apply on a State Object of context c suspends in this step
ApplySuspends(c) ==
    /\ pc[c] = "idle"
    /\ pc'[c] = "await"
    /\ frame'[c].call.kind = "apply"

\* a suspended direct apply of context c completes in this step
ApplyCompletes(c) ==
    /\ pc[c] = "await"
    /\ pc'[c] # "await"
    /\ frame[c].call.kind = "apply"

\* C11: the memory changes only through push and clear.  A successful push
\* appends exactly the pushed message at the end and leaves the earlier
\* messages as they were; clear removes all messages; both leave the client
\* and the other State Objects alone.  Every other apply call (len, get,
\* respond on both sides of its provider call and whatever its outcome, a
\* push that fails to decode, an unknown name) leaves the State Store as it
\* was, and so does every apply call on the Google State Object.
C11_MemoryFrame ==
    [][\A c \in Contexts :
         /\ ApplyReturns(c) =>
              LET call == last'[c].call
                  ret == last'[c].ret
                  before == plugin_data[c][call.plugin]
                  after == plugin_data'[c][call.plugin] IN
              /\ \A p \in PluginNames \ {call.plugin} : plugin_data'[c][p] = plugin_data[c][p]
              /\ call.plugin = "Google" => after = before
              /\ call.plugin = "ChatGPT" =>
                   /\ after.client = before.client
                   /\ IF call.name = "push" /\ IsOk(ret)
                      THEN /\ Len(after.memory) = Len(before.memory) + 1
                           /\ SubSeq(after.memory, 1, Len(before.memory)) = before.memory
                           /\ after.memory[Len(after.memory)] =
                                 ChatCompletionRequestMessage("Role::" \o call.arg.map["role"].s,
                                                              call.arg.map["content"].s)
                      ELSE IF call.name = "clear"
                      THEN IsOk(ret) /\ after.memory = <<>>
                      ELSE after.memory = before.memory
         /\ (ApplySuspends(c) \/ ApplyCompletes(c)) => plugin_data'[c] = plugin_data[c]]_vars

\* a direct respond failed at the provider, on a memory of three messages,
\* in a context whose Google State Object exists
C11_Witness ==
    \E c \in Contexts :
        /\ LastApply(c, "ChatGPT", "respond")
        /\ last[c].ret = Err(OpenAIError)
        /\ Len(plugin_data[c]["ChatGPT"].memory) = 3
        /\ plugin_data[c]["Google"] # None

\* C12 as stated: every failure during the google command (absent plugin,
\* unknown operation, missing query, failed browse request, search response
\* body that cannot be parsed) is returned as an error: a failed lookup or
\* apply call, or a missing query, ends the command in an error, and a
\* successful textual result is always the text of a parsed search response.
C12_GoogleFailuresAreErrors ==
    \A c \in Contexts :
        LastCommand(c, "google")
        => /\ (\E i \in DOMAIN calls[c] : calls[c][i].tag = "Err") => IsErr(last[c].ret)
           /\ "query" \notin DOMAIN last[c].call.arg => IsErr(last[c].ret)
           /\ IsOk(last[c].ret) => last[c].ret.val = SearchText(ParsableBody)

\* C13 as stated: every invocation of ask-chatgpt, whatever the outcome of
\* the provider call (failure, at least one choice, zero choices), ends in
\* a textual result or an error value and never in a panic.
C13_AskNeverPanics ==
    \A c \in Contexts :
        (/\ pc[c] # "await"
         /\ last[c].call.kind = "command"
         /\ last[c].call.name = "ask-chatgpt")
        => /\ pc[c] = "idle"
           /\ last[c].ret.tag \in {"Ok", "Err"}

\* an ask-chatgpt invocation of context c is suspended on the provider call
AskSuspended(c) == pc[c] = "await" /\ frame[c].call.name = "ask-chatgpt"

\* C14: while the respond of an ask-chatgpt invocation is suspended on the
\* provider call, nothing else is applied to the State Objects of its
\* context, whatever the other context does meanwhile: the memory stays the
\* sequence that respond sent, ending with the user message; every step
\* taken during the suspension leaves the context's State Store and call
\* log as they are; and the completion adds at most the assistant push, so
\* the memory after it is the sequence sent plus the assistant message.
C14_ExclusiveWhileSuspended ==
    /\ [](\A c \in Conversations :
            AskSuspended(c) =>
              LET sent == calls[c][Len(calls[c])]
                  memory == plugin_data[c]["ChatGPT"].memory IN
              /\ sent.op = "respond"
              /\ sent.tag = "Await"
              /\ memory = sent.out.messages
              /\ memory[Len(memory)] =
                    ChatCompletionRequestMessage("Role::User", frame[c].call.arg["query"]))
    /\ [][\A c \in Conversations :
            AskSuspended(c) =>
              LET n == Len(calls[c])
                  added == SubSeq(calls'[c], n + 1, Len(calls'[c])) IN
              IF pc'[c] = "await"
              THEN /\ plugin_data'[c] = plugin_data[c]
                   /\ calls'[c] = calls[c]
                   /\ frame'[c] = frame[c]
              ELSE /\ last'[c].call = frame[c].call
                   /\ SubSeq(calls'[c], 1, n - 1) = SubSeq(calls[c], 1, n - 1)
                   /\ IF IsOk(last'[c].ret)
                      THEN /\ plugin_data'[c]["ChatGPT"].memory =
                                Append(plugin_data[c]["ChatGPT"].memory,
                                       ChatCompletionRequestMessage("Role::Assistant", last'[c].ret.val))
                           /\ Len(added) = 1
                           /\ added[1].op = "push"
                      ELSE /\ plugin_data'[c] = plugin_data[c]
                           /\ added = <<>>]_vars

\* one context is suspended in ask-chatgpt on [system, user] while the
\* command that ran last in the other context cleared that context's memory
C14_Witness ==
    \E c, d \in Conversations :
        /\ c # d
        /\ AskSuspended(c)
        /\ Len(plugin_data[c]["ChatGPT"].memory) = 2
        /\ LastCommand(d, "reset-chatgpt")
        /\ IsOk(last[d].ret)
        /\ calls[d] # <<>>
        /\ ghost_pushed[d] = <<>>

\* the invocation state of context c: its State Store, its position, its
\* suspended invocation and its call log
ContextState(c) == <<plugin_data[c], pc[c], frame[c], calls[c]>>

\* C15: State Objects constructed by separate construction calls, from the
\* same configuration payload, have independent memories: the memory of a
\* context holds exactly the messages pushed by that context's own
\* operations and commands since its construction or last clear, and a step
\* in which one context constructs, applies or runs a command leaves the
\* State Store, the position and the log of every other context unchanged.
C15_ContextsIndependent ==
    /\ [](\A c \in Conversations :
            plugin_data[c]["ChatGPT"] # None =>
              ChatGPTData_get(plugin_data[c]["ChatGPT"]).ret = Ok(JArr(ghost_pushed[c])))
    /\ [][\A c, d \in Conversations :
            (c # d /\ ContextState(c)' # ContextState(c)) => ContextState(d)' = ContextState(d)]_vars

\* both contexts hold a State Object constructed from the one payload; one
\* memory holds a whole exchange and the other a single pushed message
C15_Witness ==
    \E c, d \in Conversations :
        /\ c # d
        /\ last[c].call.kind = "command"
        /\ plugin_data[c]["ChatGPT"] # None
        /\ plugin_data[d]["ChatGPT"] # None
        /\ plugin_data[c]["ChatGPT"].client = plugin_data[d]["ChatGPT"].client
        /\ Len(plugin_data[c]["ChatGPT"].memory) = 3
        /\ plugin_data[d]["ChatGPT"].memory = <<ChatCompletionRequestMessage("Role::Assistant", "ok")>>

\* the call log of context c is that of an ask-chatgpt invocation, in
\* flight or completed, that got as far as its "len"
AskLogged(c) ==
    /\ IF pc[c] = "await" THEN frame[c].call.name = "ask-chatgpt"
       ELSE last[c].call.kind = "command" /\ last[c].call.name = "ask-chatgpt"
    /\ AppliesOf(calls[c], "len") # {}

\* the pushes of the system prompt in a call log
SystemPushes(log) ==
    {i \in AppliesOf(log, "push") :
        log[i].arg = JObj([role |-> JStr("System"), content |-> JStr(CHAT_GPT_PROMPT)])}

\* C16: after any sequence of ask-chatgpt and reset-chatgpt commands on a
\* freshly constructed memory plugin, with the provider failing, answering
\* or answering without a choice, the memory holds at most one system
\* message; a non-empty memory starts with the fixed system prompt; and an
\* ask-chatgpt invocation pushes the system prompt, once and before its
\* user message, if and only if its len returned 0.
C16_OneSystemPrompt ==
    \A c \in Contexts :
        LET memory == MemoryOf(plugin_data[c]) IN
        /\ Cardinality({i \in DOMAIN memory : memory[i].role = "Role::System"}) <= 1
        /\ memory # <<>> => memory[1] = ChatCompletionRequestMessage("Role::System", CHAT_GPT_PROMPT)
        /\ AskLogged(c) =>
             /\ SystemPushes(calls[c]) # {} <=> AskedOnEmpty(c)
             /\ Cardinality(SystemPushes(calls[c])) <= 1
             /\ \A i \in SystemPushes(calls[c]), j \in AppliesOf(calls[c], "push") : i <= j

\* an ask-chatgpt that found messages in the memory (its len returned 3)
\* and pushed no system prompt was answered; the memory holds five
\* messages, one of them the system prompt
C16_Witness ==
    \E c \in Contexts :
        /\ LastCommand(c, "ask-chatgpt")
        /\ IsOk(last[c].ret)
        /\ \E i \in AppliesOf(calls[c], "len") : calls[c][i].out = JNum(3)
        /\ SystemPushes(calls[c]) = {}
        /\ Len(plugin_data[c]["ChatGPT"].memory) = 5
        /\ plugin_data[c]["ChatGPT"].memory[1].role = "Role::System"

\* the system prompt followed by user and assistant messages in turn,
\* ending with an assistant message
IsExchange(memory) ==
    /\ Len(memory) >= 3
    /\ Len(memory) % 2 = 1
    /\ memory[1] = ChatCompletionRequestMessage("Role::System", CHAT_GPT_PROMPT)
    /\ \A i \in 2..Len(memory) :
          memory[i].role = IF i % 2 = 0 THEN "Role::User" ELSE "Role::Assistant"

\* C17: when every respond is answered, the memory between commands is
\* empty or the system prompt followed by strictly alternating user and
\* assistant messages ending with an assistant message.  Its length is
\* 1 + 2k for the k ask-chatgpt commands since the last reset: reset leaves
\* it empty, the first ask-chatgpt after that leaves three messages and
\* every further one adds a user and an assistant message to the messages
\* that were there.  The assistant message an ask-chatgpt appends holds the
\* text it returns to its caller, after the user message with its query.
C17_AlternatingExchange ==
    /\ [](\A c \in Contexts :
            LET memory == MemoryOf(plugin_data[c]) IN
            /\ pc[c] = "idle" => (memory = <<>> \/ IsExchange(memory))
            /\ (LastCommand(c, "reset-chatgpt") /\ IsOk(last[c].ret)) => memory = <<>>
            /\ (LastCommand(c, "ask-chatgpt") /\ IsOk(last[c].ret)) =>
                 /\ IsExchange(memory)
                 /\ memory[Len(memory)] =
                       ChatCompletionRequestMessage("Role::Assistant", last[c].ret.val)
                 /\ memory[Len(memory) - 1] =
                       ChatCompletionRequestMessage("Role::User", last[c].call.arg["query"]))
    /\ [][\A c \in Contexts :
            LET before == MemoryOf(plugin_data[c])
                after == MemoryOf(plugin_data'[c]) IN
            /\ (pc[c] = "idle" /\ pc'[c] = "await") =>
                 after = (IF before = <<>>
                          THEN <<ChatCompletionRequestMessage("Role::System", CHAT_GPT_PROMPT)>>
                          ELSE before)
                         \o <<ChatCompletionRequestMessage("Role::User", frame'[c].call.arg["query"])>>
            /\ (pc[c] = "await" /\ pc'[c] # "await") =>
                 /\ pc'[c] = "idle"
                 /\ IsOk(last'[c].ret)
                 /\ after = Append(before,
                                   ChatCompletionRequestMessage("Role::Assistant", last'[c].ret.val))]_vars

\* the second ask-chatgpt since the reset was answered "ok": the memory
\* holds five messages, the earlier exchange "hi", "alt" among them
C17_Witness ==
    \E c \in Contexts :
        /\ LastCommand(c, "ask-chatgpt")
        /\ last[c].ret = Ok("ok")
        /\ last[c].call.arg["query"] = "yo"
        /\ MemoryOf(plugin_data[c]) =
              <<ChatCompletionRequestMessage("Role::System", CHAT_GPT_PROMPT),
                ChatCompletionRequestMessage("Role::User", "hi"),
                ChatCompletionRequestMessage("Role::Assistant", "alt"),
                ChatCompletionRequestMessage("Role::User", "yo"),
                ChatCompletionRequestMessage("Role::Assistant", "ok")>>

\* two user messages in a row
ConsecutiveUsers(messages) ==
    \E i \in 1..(Len(messages) - 1) :
        messages[i].role = "Role::User" /\ messages[i + 1].role = "Role::User"

\* C18: ask-chatgpt is not atomic on failure.  When its respond fails the
\* memory is left as it was sent to the provider, not rolled back: it ends
\* with the user message of the invocation, after the system prompt alone
\* if the memory was empty before.  The next ask-chatgpt on a memory left
\* ending with a user message, with no reset in between, then sends the
\* provider that memory plus its own user message: a sequence with two
\* user messages in a row.
C18_FailureNotRolledBack ==
    /\ [](\A c \in Contexts :
            (LastCommand(c, "ask-chatgpt") /\ last[c].ret = Err(OpenAIError)) =>
              LET memory == plugin_data[c]["ChatGPT"].memory
                  sent == calls[c][Len(calls[c])] IN
              /\ sent.op = "respond"
              /\ sent.tag = "Err"
              /\ memory = sent.out.messages
              /\ memory[Len(memory)] =
                    ChatCompletionRequestMessage("Role::User", last[c].call.arg["query"])
              /\ AskedOnEmpty(c) =>
                    memory = <<ChatCompletionRequestMessage("Role::System", CHAT_GPT_PROMPT),
                               ChatCompletionRequestMessage("Role::User", last[c].call.arg["query"])>>)
    /\ [][\A c \in Contexts :
            LET before == MemoryOf(plugin_data[c])
                after == MemoryOf(plugin_data'[c]) IN
            /\ (pc[c] = "await" /\ pc'[c] = "idle" /\ IsErr(last'[c].ret)) => after = before
            /\ (/\ pc[c] = "idle"
                /\ before # <<>>
                /\ before[Len(before)].role = "Role::User"
                /\ pc'[c] = "await") =>
                 LET sent == calls'[c][Len(calls'[c])] IN
                 /\ sent.op = "respond"
                 /\ sent.out.messages =
                       Append(before, ChatCompletionRequestMessage("Role::User",
                                                                   frame'[c].call.arg["query"]))
                 /\ ConsecutiveUsers(sent.out.messages)]_vars

\* an ask-chatgpt is suspended after sending the system prompt, the "hi" of
\* the invocation that failed and its own "yo"
C18_Witness ==
    \E c \in Contexts :
        /\ AskSuspended(c)
        /\ calls[c][Len(calls[c])].out.messages =
              <<ChatCompletionRequestMessage("Role::System", CHAT_GPT_PROMPT),
                ChatCompletionRequestMessage("Role::User", "hi"),
                ChatCompletionRequestMessage("Role::User", "yo")>>

====
